---- MODULE Spec2Model ----
(***************************************************************************)
(* A model of textual_textarea: the line Buffer (_buffer.py), the cursor   *)
(* handling of the TextArea widget and the functions that overlay the      *)
(* cursor on a styled row (_textarea.py).                                  *)
(*                                                                         *)
(* A Python str is a sequence of one-character strings, a Python list a    *)
(* sequence; Python indices are 0-based, so index i of a list is element   *)
(* i + 1 of the sequence that models it.                                   *)
(***************************************************************************)
EXTENDS Integers, Sequences, FiniteSets, TLC

VARIABLES
    _lines,     \* Buffer._lines: the lines of the buffer, each a list of characters
    cursor_x,   \* TextArea.cursor_x
    cursor_y,   \* TextArea.cursor_y
    lines,      \* TextArea.lines: the rendered rows
    op,         \* the operation that produced this state
    position,   \* the position that operation handed to the Buffer
    text,       \* the text that operation was called with
    raised,     \* TRUE iff that operation ended in an IndexError
    ret,        \* the Optional[int] that operation returned (None or {n})
    rt,         \* insert/delete round trip in progress, or NoRT
    watched,    \* the watch_cursor_offset calls that operation led to, in order
    in_line,    \* the styled row handed to a call of a row function
    in_index,   \* the cell index handed to that call
    out_line    \* the row _set_cursor returned

\* the variables of a call of a row function
rowvars == <<in_line, in_index, out_line>>

vars == <<_lines, cursor_x, cursor_y, lines, op, position, text, raised, ret, rt,
          watched, in_line, in_index, out_line>>

----------------------------------------------------------------------------
(* Bounds of the model *)

MaxLines == 2       \* a linebreak is inserted only while max_y < MaxLines
MaxLineLen == 2     \* text is inserted only while the line stays within MaxLineLen
MaxTextLen == 2     \* longest text handed to insert_text
MaxNegX == 1        \* cursor_left is taken only while cursor_x > -MaxNegX

Chars == {"a", "b"}

\* os.linesep on a POSIX platform
linesep == <<"\n">>

RECURSIVE SeqsUpTo(_, _)
SeqsUpTo(S, n) ==
    IF n = 0 THEN {<<>>}
    ELSE LET shorter == SeqsUpTo(S, n - 1)
         IN  shorter \cup {Append(s, c) : s \in shorter, c \in S}

\* the texts the operations are called with
Texts == SeqsUpTo(Chars, MaxTextLen) \cup {linesep}

NoPos == [x |-> 0, y |-> 0]
NoRT == [active |-> FALSE]

\* Optional[int]: None, or the singleton of the value
None == {}
Some(n) == {n}

Min(a, b) == IF a < b THEN a ELSE b
Max(a, b) == IF a > b THEN a ELSE b

----------------------------------------------------------------------------
(* Python list semantics *)

\* lst[i]: a negative index counts from the end
PyIndex(i, n) == IF i < 0 THEN i + n ELSE i

\* lst[i] raises IndexError
PyIndexError(i, n) == PyIndex(i, n) < 0 \/ PyIndex(i, n) >= n

\* the start of the slice lst[i:], and the place list.insert(i, v) inserts at
PyClamp(i, n) == IF i < 0 THEN Max(i + n, 0) ELSE Min(i, n)

\* lst.insert(i, v)
PyInsert(lst, i, v) ==
    LET k == PyClamp(i, Len(lst))
    IN  SubSeq(lst, 1, k) \o <<v>> \o SubSeq(lst, k + 1, Len(lst))

\* lst[i:]
PySliceFrom(lst, i) == SubSeq(lst, PyClamp(i, Len(lst)) + 1, Len(lst))

\* lst after del lst[i:]
PyDelFrom(lst, i) == SubSeq(lst, 1, PyClamp(i, Len(lst)))

\* lst after del lst[i]
PyDel(lst, i) ==
    LET k == PyIndex(i, Len(lst))
    IN  SubSeq(lst, 1, k) \o SubSeq(lst, k + 2, Len(lst))

----------------------------------------------------------------------------
(* Buffer *)

max_y(L) == Len(L)

max_x(L) ==
    CHOOSE m \in {Len(L[i]) : i \in 1..Len(L)} :
        \A i \in 1..Len(L) : Len(L[i]) <= m

get_line_length(L, y) ==
    IF PyIndexError(y, Len(L)) THEN None ELSE Some(Len(L[PyIndex(y, Len(L)) + 1]))

RECURSIVE Join(_, _)
Join(L, sep) ==
    IF Len(L) = 0 THEN <<>>
    ELSE IF Len(L) = 1 THEN L[1]
    ELSE L[1] \o sep \o Join(Tail(L), sep)

write(L) == Join(L, linesep)

insert_linebreak_raises(L, pos) == PyIndexError(pos.y, Len(L))

\* insert_linebreak as it would be if it put the new line at row y
insert_linebreak_before(L, pos) ==
    LET j    == PyIndex(pos.y, Len(L)) + 1
        line == PySliceFrom(L[j], pos.x)
        cut  == [L EXCEPT ![j] = PyDelFrom(@, pos.x)]
    IN  PyInsert(cut, pos.y, line)

\* insert_linebreak as it would be if it added no line for an empty remainder
insert_linebreak_skips_empty(L, pos) ==
    LET j    == PyIndex(pos.y, Len(L)) + 1
        line == PySliceFrom(L[j], pos.x)
        cut  == [L EXCEPT ![j] = PyDelFrom(@, pos.x)]
    IN  IF line = <<>> THEN cut ELSE PyInsert(cut, pos.y + 1, line)

insert_linebreak(L, pos) ==
    LET j    == PyIndex(pos.y, Len(L)) + 1
        line == PySliceFrom(L[j], pos.x)
        cut  == [L EXCEPT ![j] = PyDelFrom(@, pos.x)]
    IN  PyInsert(cut, pos.y + 1, line)

\* for char in text: self._lines[y].insert(x, char)
RECURSIVE InsertChars(_, _, _)
InsertChars(line, x, t) ==
    IF t = <<>> THEN line
    ELSE InsertChars(PyInsert(line, x, Head(t)), x, Tail(t))

insert_text_raises(L, pos, t) ==
    IF t = linesep THEN insert_linebreak_raises(L, pos)
    ELSE t # <<>> /\ PyIndexError(pos.y, Len(L))

insert_text(L, pos, t) ==
    IF t = linesep THEN insert_linebreak(L, pos)
    ELSE IF t = <<>> THEN L
    ELSE [L EXCEPT ![PyIndex(pos.y, Len(L)) + 1] = InsertChars(@, pos.x, t)]

delete_text_raises(L, pos) ==
    \/ PyIndexError(pos.y, Len(L))
    \/ PyIndexError(pos.x, Len(L[PyIndex(pos.y, Len(L)) + 1]))

\* delete_text as it would be if it dropped a line it emptied
delete_text_drops_empty_line(L, pos) ==
    LET j    == PyIndex(pos.y, Len(L)) + 1
        line == PyDel(L[j], pos.x)
    IN  IF line = <<>> THEN SubSeq(L, 1, j - 1) \o SubSeq(L, j + 1, Len(L))
        ELSE [L EXCEPT ![j] = line]

\* delete_text as it would be if it deleted the character after column x
delete_text_off_by_one(L, pos) ==
    [L EXCEPT ![PyIndex(pos.y, Len(L)) + 1] = PyDel(@, pos.x + 1)]

\* delete_text as it would be if it deleted from column x to the end of line
delete_text_to_end(L, pos) ==
    [L EXCEPT ![PyIndex(pos.y, Len(L)) + 1] = PyDelFrom(@, pos.x)]

delete_text(L, pos) ==
    [L EXCEPT ![PyIndex(pos.y, Len(L)) + 1] = PyDel(@, pos.x)]

----------------------------------------------------------------------------
(* TextArea *)

_is_negative(number) == number < 0

\* validate_cursor_x as it would be if it kept the cursor on a character
validate_cursor_x_strict(x, y, L) ==
    IF _is_negative(0) THEN 0
    ELSE LET line_length == get_line_length(L, y)
         IN  IF line_length = None THEN x
             ELSE IF \E n \in line_length : x >= n
                  THEN CHOOSE m \in {n - 1 : n \in line_length} : TRUE
                  ELSE x

validate_cursor_x(x, y, L) ==
    IF _is_negative(0) THEN 0
    ELSE LET line_length == get_line_length(L, y)
         IN  IF line_length = None THEN x
             ELSE IF \E n \in line_length : x > n
                  THEN CHOOSE n \in line_length : TRUE
                  ELSE x

\* validate_cursor_y as it would be if it clamped to max_y, not to max_y - 1
validate_cursor_y_past_end(y, L) ==
    IF _is_negative(y) THEN 0
    ELSE IF y > max_y(L) THEN max_y(L) ELSE y

validate_cursor_y(y, L) ==
    IF _is_negative(y) THEN 0
    ELSE LET last_line == max_y(L) - 1
         IN  IF y > last_line THEN last_line ELSE y

compute_cursor_offset(x, y) == [x |-> x, y |-> y]

\* get_cursor_region raises IndexError at line = self.lines[y]; nothing else
\* in it can fail
get_cursor_region_raises(cursor_offset, rendered) ==
    PyIndexError(cursor_offset.y, Len(rendered))

\* watch_cursor_offset as it would be without its try/except
watch_cursor_offset_uncaught(previous_cursor_offset, cursor_offset, rendered) ==
    LET error == \/ get_cursor_region_raises(previous_cursor_offset, rendered)
                 \/ get_cursor_region_raises(cursor_offset, rendered)
    IN  [previous   |-> previous_cursor_offset,
         current    |-> cursor_offset,
         rows       |-> Len(rendered),
         error      |-> error,
         propagated |-> error]

\* One call of watch_cursor_offset while self.lines = rendered: whether an
\* IndexError occurred inside it and whether it left the watcher
watch_cursor_offset(previous_cursor_offset, cursor_offset, rendered) ==
    LET error == \/ get_cursor_region_raises(previous_cursor_offset, rendered)
                 \/ get_cursor_region_raises(cursor_offset, rendered)
    IN  [previous   |-> previous_cursor_offset,
         current    |-> cursor_offset,
         rows       |-> Len(rendered),
         error      |-> error,
         propagated |-> FALSE]

\* The reactive machinery after an assignment to cursor_x or cursor_y: the
\* computed cursor_offset is taken again and its watcher is called if it changed
Notify(previous_cursor_offset, cursor_offset, rendered) ==
    IF previous_cursor_offset = cursor_offset THEN <<>>
    ELSE <<watch_cursor_offset(previous_cursor_offset, cursor_offset, rendered)>>

\* an error left the last of these watcher calls, and with it the handler
Propagated(w) == w # <<>> /\ w[Len(w)].propagated

\* str.split(sep) for a one-character separator
RECURSIVE Split(_, _, _)
Split(s, sep, cur) ==
    IF s = <<>> THEN <<cur>>
    ELSE IF Head(s) = sep THEN <<cur>> \o Split(Tail(s), sep, <<>>)
    ELSE Split(Tail(s), sep, Append(cur, Head(s)))

Blank(n) == [i \in 1..n |-> " "]

\* a row cropped or padded with blanks to width cells
SetWidth(row, width) ==
    IF Len(row) >= width THEN SubSeq(row, 1, width)
    ELSE row \o Blank(width - Len(row))

\* console.render_lines(Syntax(write(), ""), options) with options.max_width =
\* max_x and options.height = max_y: the rows of the text, one cell per
\* character, each of max_x cells, max_y rows in all
_make_lines(L) ==
    LET rows   == Split(write(L), "\n", <<>>)
        width  == max_x(L)
        height == max_y(L)
    IN  [i \in 1..height |->
            IF i <= Len(rows) THEN SetWidth(rows[i], width) ELSE Blank(width)]

----------------------------------------------------------------------------
(* The state after construction: Buffer.__init__ and the reactive defaults *)

Init ==
    /\ _lines = << <<>> >>
    /\ cursor_x = 0
    /\ cursor_y = 0
    /\ lines = <<>>
    /\ op = "init"
    /\ position = NoPos
    /\ text = <<>>
    /\ raised = FALSE
    /\ ret = None
    /\ rt = NoRT
    /\ watched = <<>>
    /\ in_line = <<>>
    /\ in_index = 0
    /\ out_line = <<>>

\* what an operation that calls no Buffer mutation records
Moved(name, w) ==
    /\ op' = name
    /\ position' = NoPos
    /\ text' = <<>>
    /\ raised' = Propagated(w)
    /\ ret' = None
    /\ rt' = NoRT
    /\ watched' = w
    /\ UNCHANGED rowvars

action_cursor_left ==
    /\ cursor_x > -MaxNegX
    /\ cursor_x' = validate_cursor_x(cursor_x - 1, cursor_y, _lines)
    /\ Moved("cursor_left",
             Notify(compute_cursor_offset(cursor_x, cursor_y),
                    compute_cursor_offset(cursor_x', cursor_y), lines))
    /\ UNCHANGED <<_lines, cursor_y, lines>>

action_cursor_right ==
    /\ cursor_x' = validate_cursor_x(cursor_x + 1, cursor_y, _lines)
    /\ Moved("cursor_right",
             Notify(compute_cursor_offset(cursor_x, cursor_y),
                    compute_cursor_offset(cursor_x', cursor_y), lines))
    /\ UNCHANGED <<_lines, cursor_y, lines>>

action_cursor_up ==
    /\ cursor_y' = validate_cursor_y(cursor_y - 1, _lines)
    /\ Moved("cursor_up",
             Notify(compute_cursor_offset(cursor_x, cursor_y),
                    compute_cursor_offset(cursor_x, cursor_y'), lines))
    /\ UNCHANGED <<_lines, cursor_x, lines>>

action_cursor_down ==
    /\ cursor_y' = validate_cursor_y(cursor_y + 1, _lines)
    /\ Moved("cursor_down",
             Notify(compute_cursor_offset(cursor_x, cursor_y),
                    compute_cursor_offset(cursor_x, cursor_y'), lines))
    /\ UNCHANGED <<_lines, cursor_x, lines>>

\* action_insert_linebreak_at_cursor as it would be without self.cursor_x = 0
action_insert_linebreak_keeps_column ==
    LET pos == compute_cursor_offset(cursor_x, cursor_y)
        L1  == insert_linebreak(_lines, pos)
        \* action_cursor_down(), the rendered rows still those of the old buffer
        y1  == validate_cursor_y(cursor_y + 1, L1)
        w1  == Notify(pos, compute_cursor_offset(cursor_x, y1), lines)
        \* the assignment to cursor_x, reached unless the watcher let an error out
        x1  == IF Propagated(w1) THEN cursor_x
               ELSE validate_cursor_x(cursor_x, y1, L1)
        w2  == Notify(compute_cursor_offset(cursor_x, y1),
                      compute_cursor_offset(x1, y1), lines)
        w   == w1 \o w2
    IN  /\ max_y(_lines) < MaxLines
        /\ ~insert_linebreak_raises(_lines, pos)
        /\ _lines' = L1
        /\ cursor_y' = y1
        /\ cursor_x' = x1
        \* _update_lines(), reached unless a watcher let an error out
        /\ lines' = IF Propagated(w) THEN lines ELSE _make_lines(L1)
        /\ op' = "insert_linebreak_at_cursor"
        /\ position' = pos
        /\ text' = <<>>
        /\ raised' = Propagated(w)
        /\ ret' = None
        /\ rt' = NoRT
        /\ watched' = w
        /\ UNCHANGED rowvars

action_insert_linebreak_at_cursor ==
    LET pos == compute_cursor_offset(cursor_x, cursor_y)
        L1  == insert_linebreak(_lines, pos)
        \* action_cursor_down(), the rendered rows still those of the old buffer
        y1  == validate_cursor_y(cursor_y + 1, L1)
        w1  == Notify(pos, compute_cursor_offset(cursor_x, y1), lines)
        \* the assignment to cursor_x, reached unless the watcher let an error out
        x1  == IF Propagated(w1) THEN cursor_x
               ELSE validate_cursor_x(0, y1, L1)
        w2  == Notify(compute_cursor_offset(cursor_x, y1),
                      compute_cursor_offset(x1, y1), lines)
        w   == w1 \o w2
    IN  /\ max_y(_lines) < MaxLines
        /\ ~insert_linebreak_raises(_lines, pos)
        /\ _lines' = L1
        /\ cursor_y' = y1
        /\ cursor_x' = x1
        \* _update_lines(), reached unless a watcher let an error out
        /\ lines' = IF Propagated(w) THEN lines ELSE _make_lines(L1)
        /\ op' = "insert_linebreak_at_cursor"
        /\ position' = pos
        /\ text' = <<>>
        /\ raised' = Propagated(w)
        /\ ret' = None
        /\ rt' = NoRT
        /\ watched' = w
        /\ UNCHANGED rowvars

\* insert_text_at_cursor(text), whatever the size of the buffer
Do_insert_text_at_cursor(t) ==
    LET pos == compute_cursor_offset(cursor_x, cursor_y)
        L1  == insert_text(_lines, pos, t)
    IN  /\ ~insert_text_raises(_lines, pos, t)
        /\ _lines' = L1
        /\ lines' = _make_lines(L1)
        /\ cursor_x' = validate_cursor_x(cursor_x + Len(t), cursor_y, L1)
        /\ cursor_y' = cursor_y
        /\ op' = "insert_text_at_cursor"
        /\ position' = pos
        /\ text' = t
        /\ watched' = Notify(pos, compute_cursor_offset(cursor_x', cursor_y),
                             _make_lines(L1))
        /\ raised' = Propagated(watched')
        /\ ret' = None
        /\ rt' = NoRT
        /\ UNCHANGED rowvars

\* insert_text_at_cursor(text) while the buffer stays within the bounds
insert_text_at_cursor(t) ==
    /\ IF t = linesep THEN max_y(_lines) < MaxLines
       ELSE Len(_lines[cursor_y + 1]) + Len(t) <= MaxLineLen
    /\ Do_insert_text_at_cursor(t)

Next ==
    \/ action_cursor_left
    \/ action_cursor_right
    \/ action_cursor_up
    \/ action_cursor_down
    \/ action_insert_linebreak_at_cursor
    \/ \E t \in Texts : insert_text_at_cursor(t)

Spec == Init /\ [][Next]_vars

----------------------------------------------------------------------------
(* Typing: a fresh TextArea that receives printable keys only.  No         *)
(* printable key is bound, so _on_key takes its is_printable branch.       *)

MaxTyped == 6       \* keys are delivered only while fewer than MaxTyped were typed

_on_key(character) ==
    /\ Len(_lines[1]) < MaxTyped
    /\ Do_insert_text_at_cursor(<<character>>)

KeyNext == \E character \in Chars : _on_key(character)

KeySpec == Init /\ [][KeyNext]_vars

----------------------------------------------------------------------------
(* The Buffer driven directly, with any position: the calls a client of    *)
(* Buffer can make.  A call that raises IndexError leaves the Buffer as it *)
(* was (each method raises before its first assignment).                   *)

\* 0 <= y < max_y and 0 <= x <= length of line y
InRange(pos, L) ==
    /\ 0 <= pos.y /\ pos.y <= max_y(L) - 1
    /\ 0 <= pos.x /\ pos.x <= Len(L[pos.y + 1])

\* The rows and columns a call is made with: every row and column of the
\* buffer, one past its ends, and as far below zero (an index beyond these
\* behaves as the nearest of them does)
Rows(L) == -(max_y(L) + 1) .. max_y(L)
Cols(L) == -(max_x(L) + 1) .. (max_x(L) + 1)
Positions(L) == [x : Cols(L), y : Rows(L)]

\* the three mutations, as the methods perform them
Do_insert_linebreak(pos) ==
    /\ op' = "insert_linebreak"
    /\ raised' = insert_linebreak_raises(_lines, pos)
    /\ _lines' = IF insert_linebreak_raises(_lines, pos) THEN _lines
                 ELSE insert_linebreak(_lines, pos)
    /\ UNCHANGED <<cursor_x, cursor_y, lines, watched, rowvars>>

Do_insert_text(pos, t) ==
    /\ op' = "insert_text"
    /\ raised' = insert_text_raises(_lines, pos, t)
    /\ _lines' = IF insert_text_raises(_lines, pos, t) THEN _lines
                 ELSE insert_text(_lines, pos, t)
    /\ UNCHANGED <<cursor_x, cursor_y, lines, watched, rowvars>>

Do_delete_text(pos) ==
    /\ op' = "delete_text"
    /\ raised' = delete_text_raises(_lines, pos)
    /\ _lines' = IF delete_text_raises(_lines, pos) THEN _lines
                 ELSE delete_text(_lines, pos)
    /\ UNCHANGED <<cursor_x, cursor_y, lines, watched, rowvars>>

\* the bounds on the buffer's growth
RoomForLine(pos) ==
    insert_linebreak_raises(_lines, pos) \/ max_y(_lines) < MaxLines

RoomForText(pos, t) ==
    IF t = linesep THEN RoomForLine(pos)
    ELSE IF t = <<>> \/ insert_text_raises(_lines, pos, t) THEN TRUE
    ELSE Len(_lines[PyIndex(pos.y, Len(_lines)) + 1]) + Len(t) <= MaxLineLen

\* in a sequence of calls only the method's name and whether it raised are kept
Unrecorded ==
    /\ position' = NoPos
    /\ text' = <<>>
    /\ ret' = None
    /\ rt' = NoRT

Buffer_insert_linebreak(pos) ==
    /\ RoomForLine(pos)
    /\ Do_insert_linebreak(pos)
    /\ Unrecorded

\* of an insert_text it is also kept whether the text was the line separator
Buffer_insert_text(pos, t) ==
    /\ RoomForText(pos, t)
    /\ Do_insert_text(pos, t)
    /\ text' = IF t = linesep THEN linesep ELSE <<>>
    /\ position' = NoPos
    /\ ret' = None
    /\ rt' = NoRT

Buffer_delete_text(pos) ==
    /\ Do_delete_text(pos)
    /\ Unrecorded

BufNext ==
    \/ \E pos \in Positions(_lines) : Buffer_insert_linebreak(pos)
    \/ \E pos \in Positions(_lines), t \in Texts : Buffer_insert_text(pos, t)
    \/ \E pos \in Positions(_lines) : Buffer_delete_text(pos)

BufSpec == Init /\ [][BufNext]_vars

----------------------------------------------------------------------------
(* One call of a Buffer method on any buffer, its arguments recorded; an   *)
(* insert_text may be followed by delete_text calls at the same position,  *)
(* one for each character inserted.                                        *)

\* the buffers of at most MaxLines lines of at most MaxLineLen characters;
\* each is reached from construction by insert_text and insert_linebreak
Buffers == SeqsUpTo(SeqsUpTo(Chars, MaxLineLen), MaxLines) \ {<<>>}

CallInit ==
    /\ _lines \in Buffers
    /\ cursor_x = 0
    /\ cursor_y = 0
    /\ lines = <<>>
    /\ op = "init"
    /\ position = NoPos
    /\ text = <<>>
    /\ raised = FALSE
    /\ ret = None
    /\ rt = NoRT
    /\ watched = <<>>
    /\ in_line = <<>>
    /\ in_index = 0
    /\ out_line = <<>>

Call_insert_linebreak(pos) ==
    /\ Do_insert_linebreak(pos)
    /\ position' = pos
    /\ text' = <<>>
    /\ ret' = None
    /\ rt' = NoRT

Call_insert_text(pos, t) ==
    /\ Do_insert_text(pos, t)
    /\ position' = pos
    /\ text' = t
    /\ ret' = None
    /\ rt' = IF ~insert_text_raises(_lines, pos, t) /\ InRange(pos, _lines) /\ t # linesep
             THEN [active |-> TRUE, n |-> Len(t), left |-> Len(t), before |-> write(_lines)]
             ELSE NoRT

Call_delete_text(pos) ==
    /\ Do_delete_text(pos)
    /\ position' = pos
    /\ text' = <<>>
    /\ ret' = None
    /\ rt' = NoRT

\* the next delete_text of a round trip, at the position of its insert_text
Call_delete_inserted ==
    /\ rt.active
    /\ rt.left > 0
    /\ Do_delete_text(position)
    /\ rt' = [rt EXCEPT !.left = @ - 1]
    /\ UNCHANGED <<position, text, ret>>

Call_get_line_length(y) ==
    /\ op' = "get_line_length"
    /\ position' = [x |-> 0, y |-> y]
    /\ ret' = get_line_length(_lines, y)
    /\ raised' = FALSE
    /\ text' = <<>>
    /\ rt' = NoRT
    /\ UNCHANGED <<_lines, cursor_x, cursor_y, lines, watched, rowvars>>

\* the validators of a TextArea that holds this buffer, its cursor on row y
Call_validate_cursor_x(x, y) ==
    /\ op' = "validate_cursor_x"
    /\ position' = [x |-> x, y |-> y]
    /\ ret' = Some(validate_cursor_x(x, y, _lines))
    /\ raised' = FALSE
    /\ text' = <<>>
    /\ rt' = NoRT
    /\ UNCHANGED <<_lines, cursor_x, cursor_y, lines, watched, rowvars>>

Call_validate_cursor_y(y) ==
    /\ op' = "validate_cursor_y"
    /\ position' = [x |-> 0, y |-> y]
    /\ ret' = Some(validate_cursor_y(y, _lines))
    /\ raised' = FALSE
    /\ text' = <<>>
    /\ rt' = NoRT
    /\ UNCHANGED <<_lines, cursor_x, cursor_y, lines, watched, rowvars>>

\* no call has been made yet
Fresh == op = "init"

CallNext ==
    \/ Fresh /\ \E pos \in Positions(_lines) : Call_insert_linebreak(pos)
    \/ Fresh /\ \E pos \in Positions(_lines), t \in Texts : Call_insert_text(pos, t)
    \/ Fresh /\ \E pos \in Positions(_lines) : Call_delete_text(pos)
    \/ Fresh /\ \E y \in Rows(_lines) : Call_get_line_length(y)
    \/ Fresh /\ \E pos \in Positions(_lines) : Call_validate_cursor_x(pos.x, pos.y)
    \/ Fresh /\ \E y \in Rows(_lines) : Call_validate_cursor_y(y)
    \/ Call_delete_inserted

CallSpec == CallInit /\ [][CallNext]_vars

----------------------------------------------------------------------------
(* Styled rows.  A rich Segment is a text with a style; the rows of a      *)
(* Syntax hold no control segments.  Every character of the model takes    *)
(* one terminal cell, so the cell length of a text is its length.          *)

MaxSegments == 3    \* most segments of a row handed to a row function
MaxSegLen == 3      \* longest text of one of its segments

Segment(t, style) == [text |-> t, style |-> style]

\* the styles of a highlighted row, the style of the cursor, and no style
Styles == {"keyword", "string"}
CursorStyle == "textarea--cursor"
NoStyle == "None"

cell_len(t) == Len(t)

cell_length(segment) == cell_len(segment.text)

\* Segment.get_line_length(line)
RECURSIVE Segment_get_line_length(_)
Segment_get_line_length(line) ==
    IF line = <<>> THEN 0
    ELSE cell_len(Head(line).text) + Segment_get_line_length(Tail(line))

\* segment.split_cells(cut) on single-cell text: (text[:cut], text[cut:])
split_cells(segment, cut) ==
    IF cut >= Len(segment.text)
    THEN <<segment, Segment(<<>>, segment.style)>>
    ELSE <<Segment(PyDelFrom(segment.text, cut), segment.style),
           Segment(PySliceFrom(segment.text, cut), segment.style)>>

\* next(iter_cuts, -1)
NextCut(cuts) == IF cuts = <<>> THEN -1 ELSE Head(cuts)

\* Segment.divide, from the first cut that is not 0: segment is the one the
\* while loop is at (what is left of it after a split), rest the segments
\* the for loop has yet to take, pos the cell position, split the portion
\* being collected and yielded the portions yielded so far
RECURSIVE DivideSegments(_, _, _, _, _, _)
RECURSIVE DivideText(_, _, _, _, _, _, _)
DivideText(segment, rest, cut, cuts, pos, split, yielded) ==
    IF segment.text = <<>> THEN DivideSegments(rest, cut, cuts, pos, split, yielded)
    ELSE LET end_pos == pos + cell_len(segment.text)
         IN  IF end_pos < cut
             THEN DivideSegments(rest, cut, cuts, end_pos, Append(split, segment), yielded)
             ELSE IF end_pos = cut
             THEN LET portions == Append(yielded, Append(split, segment))
                  IN  IF NextCut(cuts) = -1 THEN portions
                      ELSE DivideSegments(rest, Head(cuts), Tail(cuts), end_pos,
                                          <<>>, portions)
             ELSE LET parts    == split_cells(segment, cut - pos)
                      portions == Append(yielded, Append(split, parts[1]))
                  IN  IF NextCut(cuts) = -1 THEN portions
                      ELSE DivideText(parts[2], rest, Head(cuts), Tail(cuts), cut,
                                      <<>>, portions)

DivideSegments(rest, cut, cuts, pos, split, yielded) ==
    IF rest = <<>> THEN Append(yielded, split)
    ELSE DivideText(Head(rest), Tail(rest), cut, cuts, pos, split, yielded)

\* Segment.divide(segments, cuts): an empty portion for each leading cut 0;
\* a cut of -1 ends the division, as the end of the cuts does
RECURSIVE DivideFrom(_, _, _)
DivideFrom(segments, cuts, yielded) ==
    IF NextCut(cuts) = -1 THEN yielded
    ELSE IF Head(cuts) # 0
         THEN DivideSegments(segments, Head(cuts), Tail(cuts), 0, <<>>, yielded)
    ELSE DivideFrom(segments, Tail(cuts), Append(yielded, <<>>))

Segment_divide(segments, cuts) == DivideFrom(segments, cuts, <<>>)

\* [segment for line in segments for segment in line]
RECURSIVE Flatten(_)
Flatten(portions) ==
    IF portions = <<>> THEN <<>> ELSE Head(portions) \o Flatten(Tail(portions))

\* set_cell_size(text, total) on single-cell text
set_cell_size(t, total) ==
    IF Len(t) < total THEN t \o Blank(total - Len(t)) ELSE PyDelFrom(t, total)

\* the cropping loop of Segment.adjust_line_length
RECURSIVE CropLine(_, _, _)
CropLine(line, length, line_length) ==
    IF line = <<>> THEN <<>>
    ELSE LET segment == Head(line)
         IN  IF line_length + cell_length(segment) < length
             THEN <<segment>> \o CropLine(Tail(line), length,
                                          line_length + cell_length(segment))
             ELSE <<Segment(set_cell_size(segment.text, length - line_length),
                            segment.style)>>

\* Segment.adjust_line_length(line, length): padded with one blank segment of
\* no style, or cropped
Segment_adjust_line_length(line, length) ==
    LET line_length == Segment_get_line_length(line)
    IN  IF line_length < length
        THEN Append(line, Segment(Blank(length - line_length), NoStyle))
        ELSE IF line_length > length THEN CropLine(line, length, 0)
        ELSE line

----------------------------------------------------------------------------
(* The row functions of _textarea.py *)

\* the for loop of _get_segment_index_from_cell_index at segment_index, as it
\* would be if the range of a segment took in the cell behind it
RECURSIVE SegmentIndexInclusiveFrom(_, _, _, _)
SegmentIndexInclusiveFrom(cell_index, line, segment_index, length) ==
    IF segment_index >= Len(line) THEN None
    ELSE LET new_length == length + cell_length(line[segment_index + 1])
         IN  IF length <= cell_index /\ cell_index <= new_length
             THEN Some(segment_index)
             ELSE SegmentIndexInclusiveFrom(cell_index, line, segment_index + 1, new_length)

_get_segment_index_inclusive(cell_index, line) ==
    SegmentIndexInclusiveFrom(cell_index, line, 0, 0)

\* the for loop of _get_segment_index_from_cell_index at segment_index, length
\* being the cell length of the segments before it
RECURSIVE SegmentIndexFrom(_, _, _, _)
SegmentIndexFrom(cell_index, line, segment_index, length) ==
    IF segment_index >= Len(line) THEN None
    ELSE LET cell_len_here == cell_length(line[segment_index + 1])
             new_length    == length + cell_len_here
         IN  IF new_length - cell_len_here <= cell_index /\ cell_index < new_length
             THEN Some(segment_index)
             ELSE SegmentIndexFrom(cell_index, line, segment_index + 1, new_length)

_get_segment_index_from_cell_index(cell_index, line) ==
    SegmentIndexFrom(cell_index, line, 0, 0)

\* _set_cursor as it would be if it did not divide the row at the cursor
_set_cursor_whole_segment(index, line, style) ==
    LET line_length == Segment_get_line_length(line)
        segments    == Segment_adjust_line_length(line, line_length + 1)
        cursor_segment_index == _get_segment_index_from_cell_index(index, segments)
    IN  IF cursor_segment_index = None THEN line
        ELSE LET i == CHOOSE n \in cursor_segment_index : TRUE
             IN  [segments EXCEPT ![i + 1] = Segment(@.text, style)]

\* _set_cursor as it would be if a miss returned the row it had prepared
_set_cursor_returns_segments(index, line, style) ==
    LET line_length == Segment_get_line_length(line)
        divided     == Segment_divide(line, <<0, index, index + 1, line_length>>)
        segments    == Segment_adjust_line_length(Flatten(divided), line_length + 1)
        cursor_segment_index == _get_segment_index_from_cell_index(index, segments)
    IN  IF cursor_segment_index = None THEN segments
        ELSE LET i == CHOOSE n \in cursor_segment_index : TRUE
             IN  [segments EXCEPT ![i + 1] = Segment(@.text, style)]

_set_cursor(index, line, style) ==
    LET line_length == Segment_get_line_length(line)
        divided     == Segment_divide(line, <<0, index, index + 1, line_length>>)
        segments    == Segment_adjust_line_length(Flatten(divided), line_length + 1)
        cursor_segment_index == _get_segment_index_from_cell_index(index, segments)
    IN  IF cursor_segment_index = None THEN line
        ELSE LET i == CHOOSE n \in cursor_segment_index : TRUE
             IN  [segments EXCEPT ![i + 1] = Segment(@.text, style)]

----------------------------------------------------------------------------
(* One call of a row function on any styled row *)

\* the text of n cells that a segment of the model holds: a, b, a, ...
SegmentText(n) == [i \in 1..n |-> IF i % 2 = 1 THEN "a" ELSE "b"]

Segments == {Segment(SegmentText(n), style) : n \in 0..MaxSegLen, style \in Styles}

StyledRows == SeqsUpTo(Segments, MaxSegments)

\* the cell indices a call is made with: every cell of the row, two behind
\* its end and as far below zero
CellIndices(row) ==
    -(Segment_get_line_length(row) + 2) .. (Segment_get_line_length(row) + 2)

RowInit ==
    /\ _lines = << <<>> >>
    /\ cursor_x = 0
    /\ cursor_y = 0
    /\ lines = <<>>
    /\ op = "init"
    /\ position = NoPos
    /\ text = <<>>
    /\ raised = FALSE
    /\ ret = None
    /\ rt = NoRT
    /\ watched = <<>>
    /\ in_line \in StyledRows
    /\ in_index = 0
    /\ out_line = <<>>

Call_get_segment_index(cell_index) ==
    /\ op' = "_get_segment_index_from_cell_index"
    /\ in_index' = cell_index
    /\ ret' = _get_segment_index_from_cell_index(cell_index, in_line)
    /\ UNCHANGED <<_lines, cursor_x, cursor_y, lines, position, text, raised, rt,
                   watched, in_line, out_line>>

Call_set_cursor(i) ==
    /\ op' = "_set_cursor"
    /\ in_index' = i
    /\ out_line' = _set_cursor(i, in_line, CursorStyle)
    /\ UNCHANGED <<_lines, cursor_x, cursor_y, lines, position, text, raised, ret,
                   rt, watched, in_line>>

RowNext ==
    \/ Fresh /\ \E cell_index \in CellIndices(in_line) : Call_get_segment_index(cell_index)
    \/ Fresh /\ \E i \in CellIndices(in_line) : Call_set_cursor(i)

RowSpec == RowInit /\ [][RowNext]_vars

----------------------------------------------------------------------------
(* The claims *)

\* the line old with the text t spliced in at column x
Spliced(old, x, t) == SubSeq(old, 1, x) \o t \o SubSeq(old, x + 1, Len(old))

\* C1: every position the TextArea hands to Buffer.insert_text or
\* Buffer.insert_linebreak lies in the buffer: 0 <= y <= max_y - 1 and
\* 0 <= x <= length of line y.
C1_HandedPositionInRange ==
    [][op' \in {"insert_text_at_cursor", "insert_linebreak_at_cursor"}
         => InRange(position', _lines)]_vars

\* C2: the Buffer holds at least one line after any sequence of insert_text,
\* insert_linebreak and delete_text calls.
C2_AtLeastOneLine == max_y(_lines) >= 1

\* the last remaining character has just been deleted
C2_Witness ==
    /\ op = "delete_text"
    /\ ~raised
    /\ _lines = << <<>> >>

\* C3: insert_text((x, y), T) with (x, y) in range and T not the line separator
\* makes line y old[0..x) followed by T in its own order followed by old[x..end).
C3_InsertTextSplices ==
    [][(op' = "insert_text" /\ InRange(position', _lines) /\ text' # linesep)
         => /\ ~raised'
            /\ _lines'[position'.y + 1] =
                   Spliced(_lines[position'.y + 1], position'.x, text')]_vars

\* C4: insert_text((x, y), T) with (x, y) in range and T of n characters, not the
\* line separator, followed by n calls of delete_text((x, y)), none of which
\* raises, leaves write() as it was before the insert.
C4_RoundTrip ==
    rt.active => /\ ~raised
                 /\ rt.left = 0 => write(_lines) = rt.before

\* two characters inserted inside the second line of two, and deleted again
C4_Witness ==
    /\ rt.active
    /\ rt.left = 0
    /\ rt.n = 2
    /\ op = "delete_text"
    /\ position = [x |-> 1, y |-> 1]
    /\ Len(_lines) = 2
    /\ Len(_lines[2]) = 2

\* C5: insert_linebreak((x, y)) with (x, y) in range leaves line y holding the
\* characters before column x, makes line y + 1 hold those from column x on,
\* raises max_y by one and keeps every other line, those after y one row down.
C5_LinebreakSplits ==
    [][(op' = "insert_linebreak" /\ InRange(position', _lines))
         => LET x   == position'.x
                y   == position'.y
                old == _lines[y + 1]
            IN  /\ ~raised'
                /\ max_y(_lines') = max_y(_lines) + 1
                /\ _lines'[y + 1] = SubSeq(old, 1, x)
                /\ _lines'[y + 2] = SubSeq(old, x + 1, Len(old))
                /\ \A i \in 1..y : _lines'[i] = _lines[i]
                /\ \A i \in (y + 2)..Len(_lines) : _lines'[i + 1] = _lines[i]]_vars

\* the first of two lines "ab" split at column 1
C5_Witness ==
    /\ op = "insert_linebreak"
    /\ ~raised
    /\ position = [x |-> 1, y |-> 0]
    /\ _lines = << <<"a">>, <<"b">>, <<"a", "b">> >>

\* C6: after action_insert_linebreak_at_cursor with the cursor on row r the
\* cursor is at column 0 of row r + 1.
C6_LinebreakMovesCursor ==
    [][op' = "insert_linebreak_at_cursor"
         => cursor_x' = 0 /\ cursor_y' = cursor_y + 1]_vars

\* a line split at column 1, the cursor now at the start of the new row
C6_Witness ==
    /\ op = "insert_linebreak_at_cursor"
    /\ position = [x |-> 1, y |-> 0]
    /\ _lines = << <<"a">>, <<"b">> >>
    /\ cursor_x = 0
    /\ cursor_y = 1

\* C7: insert_text_at_cursor(T), T of n characters and not the line separator,
\* leaves the cursor row unchanged and raises the cursor column by exactly n.
C7_InsertAdvancesColumn ==
    [][(op' = "insert_text_at_cursor" /\ text' # linesep)
         => cursor_y' = cursor_y /\ cursor_x' = cursor_x + Len(text')]_vars

\* 0 <= y < max_y and 0 <= x < length of line y
OnChar(pos, L) ==
    /\ 0 <= pos.y /\ pos.y < max_y(L)
    /\ 0 <= pos.x /\ pos.x < Len(L[pos.y + 1])

\* C8: delete_text((x, y)) with a character at (x, y) removes that character,
\* the later ones moving left by one, and leaves max_y and every other line
\* unchanged; deleting the only character of the only line leaves one empty line.
C8_DeleteRemovesOne ==
    [][(op' = "delete_text" /\ OnChar(position', _lines))
         => LET x   == position'.x
                y   == position'.y
                old == _lines[y + 1]
            IN  /\ ~raised'
                /\ max_y(_lines') = max_y(_lines)
                /\ _lines'[y + 1] = SubSeq(old, 1, x) \o SubSeq(old, x + 2, Len(old))
                /\ \A i \in 1..Len(_lines) : i # y + 1 => _lines'[i] = _lines[i]
                /\ (Len(_lines) = 1 /\ Len(old) = 1) => _lines' = << <<>> >>]_vars

\* the first character of the second line of two deleted, the "b" after it
\* now at column 0
C8_Witness ==
    /\ op = "delete_text"
    /\ ~raised
    /\ ~rt.active
    /\ position = [x |-> 0, y |-> 1]
    /\ _lines = << <<"a", "b">>, <<"b">> >>

\* C9: get_line_length(y) returns the length of line y when 0 <= y < max_y and
\* None for every other y, negative rows included.
C9_LineLengthOrNone ==
    op = "get_line_length"
        => ret = IF 0 <= position.y /\ position.y < max_y(_lines)
                 THEN Some(Len(_lines[position.y + 1]))
                 ELSE None

\* C10: for a position (x, y) in range, validate_cursor_y(y) returns y and
\* validate_cursor_x(x), with the cursor on row y, returns x.
C10_ClampIdempotent ==
    /\ (op = "validate_cursor_y" /\ 0 <= position.y /\ position.y <= max_y(_lines) - 1)
           => ret = Some(position.y)
    /\ (op = "validate_cursor_x" /\ InRange(position, _lines))
           => ret = Some(position.x)

\* the column one past the last character of the last line validated
C10_Witness ==
    /\ op = "validate_cursor_x"
    /\ position = [x |-> 2, y |-> 1]
    /\ Len(_lines) = 2
    /\ Len(_lines[2]) = 2
    /\ ret = Some(2)

\* C12: the cursor column is never negative: action_cursor_left at column 0
\* leaves the column at 0, and cursor_x >= 0 after every action.
C12_ColumnNeverNegative ==
    [][/\ cursor_x' >= 0
       /\ (op' = "cursor_left" /\ cursor_x = 0) => cursor_x' = 0]_vars

\* C13: after action_cursor_up or action_cursor_down the cursor column is at
\* most the length of the line at the new cursor row.
C13_RowChangeClampsColumn ==
    [][op' \in {"cursor_up", "cursor_down"}
         => cursor_x' <= Len(_lines'[cursor_y' + 1])]_vars

\* C14: 0 <= cursor_y <= max_y - 1 in every state; action_cursor_up at row 0 and
\* action_cursor_down at the last row leave the row, and otherwise each moves
\* it by exactly one.
C14_RowClamped ==
    /\ [](0 <= cursor_y /\ cursor_y <= max_y(_lines) - 1)
    /\ [][/\ op' = "cursor_up"
               => cursor_y' = IF cursor_y = 0 THEN 0 ELSE cursor_y - 1
          /\ op' = "cursor_down"
               => cursor_y' = IF cursor_y = max_y(_lines) - 1 THEN cursor_y
                              ELSE cursor_y + 1]_vars

\* the cursor on the last of two rows after action_cursor_down
C14_Witness ==
    /\ op = "cursor_down"
    /\ max_y(_lines) = 2
    /\ cursor_y = 1

\* C17: insert_text_at_cursor with exactly the line separator splits the line
\* (max_y grows by one) and leaves the cursor column as it was before the call.
C17_SeparatorKeepsColumn ==
    [][(op' = "insert_text_at_cursor" /\ text' = linesep)
         => /\ max_y(_lines') = max_y(_lines) + 1
            /\ cursor_y' = cursor_y
            /\ cursor_x' = cursor_x]_vars

\* C20: max_y never decreases across Buffer operations: an insert_linebreak that
\* completes, and an insert_text of the line separator that completes, raise
\* it by exactly one; insert_text of any other text and delete_text leave it
\* unchanged.
C20_LineCountNeverDecreases ==
    [][/\ max_y(_lines') >= max_y(_lines)
       /\ (op' = "insert_linebreak" /\ ~raised')
            => max_y(_lines') = max_y(_lines) + 1
       /\ (op' = "insert_text" /\ ~raised' /\ text' = linesep)
            => max_y(_lines') = max_y(_lines) + 1
       /\ (op' = "insert_text" /\ text' # linesep)
            => max_y(_lines') = max_y(_lines)
       /\ op' = "delete_text"
            => max_y(_lines') = max_y(_lines)
       /\ raised' => _lines' = _lines]_vars

\* the last character of the second of two lines deleted: the lines stay two
C20_Witness ==
    /\ op = "delete_text"
    /\ ~raised
    /\ _lines = << <<"a">>, <<>> >>

\* C19: a fresh TextArea that receives only printable keys, one character
\* each, holds a single line that reads as the characters were typed, the
\* first typed leftmost, with the cursor behind the last one: each key appends
\* its character at the right end of the line and moves the cursor to (n, 0)
C19_TypingKeepsOrder ==
    /\ [](/\ max_y(_lines) = 1
          /\ cursor_y = 0
          /\ cursor_x = Len(_lines[1]))
    /\ [][/\ Len(text') = 1
          /\ _lines' = <<Append(_lines[1], text'[1])>>
          /\ cursor_x' = cursor_x + 1]_vars

C19_Witness ==
    /\ op = "insert_text_at_cursor"
    /\ _lines = << <<"a", "b", "b">> >>
    /\ cursor_x = 3
    /\ cursor_y = 0

\* C18: no call of watch_cursor_offset lets an error out, in any reachable
\* state and at any step of a handler.  An IndexError occurs inside the call
\* exactly when the previous or the new cursor row has no rendered row; it is
\* swallowed, so the handler runs to its end: the cursor is where the last
\* call was told it is, a cursor move leaves the buffer as it was, and after
\* insert_linebreak_at_cursor the buffer is the split one and the rendered
\* rows are regenerated from it
C18_WatcherSwallows ==
    /\ [](/\ ~raised
          /\ \A i \in DOMAIN watched :
                /\ ~watched[i].propagated
                /\ watched[i].error <=>
                      \/ watched[i].previous.y >= watched[i].rows
                      \/ watched[i].current.y >= watched[i].rows
          /\ watched # <<>> =>
                watched[Len(watched)].current = compute_cursor_offset(cursor_x, cursor_y))
    /\ [][/\ op' \in {"cursor_left", "cursor_right", "cursor_up", "cursor_down"}
                => _lines' = _lines /\ lines' = lines
          /\ op' = "insert_linebreak_at_cursor"
                => /\ _lines' = insert_linebreak(_lines, compute_cursor_offset(cursor_x, cursor_y))
                   /\ lines' = _make_lines(_lines')]_vars

\* Enter after one typed character: both watcher calls find the rendered rows
\* one short of the new cursor row
C18_Witness ==
    /\ op = "insert_linebreak_at_cursor"
    /\ _lines = << <<"a">>, <<>> >>
    /\ cursor_x = 0 /\ cursor_y = 1
    /\ Len(watched) = 2
    /\ watched[1].error /\ watched[1].rows = 1
    /\ watched[1].previous = [x |-> 1, y |-> 0] /\ watched[1].current = [x |-> 1, y |-> 1]
    /\ watched[2].error
    /\ watched[2].previous = [x |-> 1, y |-> 1] /\ watched[2].current = [x |-> 0, y |-> 1]
    /\ lines = _make_lines(_lines)

\* the cell widths w_0 .. w_k of the segments of a row
Widths(row) == [k \in 1..Len(row) |-> cell_length(row[k])]

\* w_0 + ... + w_(i-1)
RECURSIVE WidthBefore(_, _)
WidthBefore(widths, i) ==
    IF i = 0 THEN 0 ELSE WidthBefore(widths, i - 1) + widths[i]

\* segment i covers cell c
Covers(widths, i, c) ==
    WidthBefore(widths, i) <= c /\ c < WidthBefore(widths, i + 1)

\* C11: for a row of segments of cell widths w_0 .. w_k and a cell index c,
\* _get_segment_index_from_cell_index returns the one i with
\* w_0 + ... + w_(i-1) <= c < w_0 + ... + w_i when 0 <= c < total width, and
\* None when c is negative or at least the total width
C11_SegmentIndexCoversCell ==
    op = "_get_segment_index_from_cell_index" =>
        LET widths == Widths(in_line)
            total  == WidthBefore(widths, Len(widths))
            c      == in_index
        IN  IF 0 <= c /\ c < total
            THEN /\ \E i \in 0..(Len(widths) - 1) : ret = Some(i) /\ Covers(widths, i, c)
                 /\ \A i, j \in 0..(Len(widths) - 1) :
                        Covers(widths, i, c) /\ Covers(widths, j, c) => i = j
            ELSE ret = None

\* widths [2, 3, 1] and cell 4: the second segment
C11_Witness ==
    /\ op = "_get_segment_index_from_cell_index"
    /\ Widths(in_line) = <<2, 3, 1>>
    /\ in_index = 4
    /\ ret = Some(1)

\* the cells of a row: the character and the style of each
RECURSIVE Cells(_)
Cells(row) ==
    IF row = <<>> THEN <<>>
    ELSE [i \in 1..Len(Head(row).text) |->
            [char |-> Head(row).text[i], style |-> Head(row).style]]
         \o Cells(Tail(row))

\* C15: for a row of single-cell characters of cell width L and a cursor
\* index i with 0 <= i <= L, _set_cursor(i, row, style) returns a row of cell
\* width L + 1 whose cell i carries the cursor style and whose other cells
\* keep the character and the style they had, cell L being a blank of padding
C15_CursorOverlay ==
    (op = "_set_cursor" /\ 0 <= in_index /\ in_index <= Segment_get_line_length(in_line)) =>
        LET L      == Segment_get_line_length(in_line)
            before == Cells(in_line) \o <<[char |-> " ", style |-> NoStyle]>>
            after  == Cells(out_line)
        IN  /\ Segment_get_line_length(out_line) = L + 1
            /\ Len(after) = L + 1
            /\ \A k \in 1..(L + 1) :
                  /\ after[k].char = before[k].char
                  /\ after[k].style = IF k = in_index + 1 THEN CursorStyle
                                      ELSE before[k].style

\* the cursor inside the first of two segments
C15_Witness ==
    /\ op = "_set_cursor"
    /\ in_line = <<Segment(<<"a", "b", "a">>, "keyword"), Segment(<<"a">>, "string")>>
    /\ in_index = 1
    /\ out_line = <<Segment(<<"a">>, "keyword"), Segment(<<"b">>, CursorStyle),
                    Segment(<<"a">>, "keyword"), Segment(<<"a">>, "string"),
                    Segment(<<" ">>, NoStyle)>>

====
